---- MODULE Spec2Model ----
(***************************************************************************)
(* torch_ac.algos.base.BaseAlgo: the rollout collector.                    *)
(*                                                                         *)
(* The constructor and one call of collect_experiences are modelled as     *)
(*   Construct (lines 64-67: the asserts of __init__),                     *)
(*   Enter  (lines 155-164: the per-call locals),                          *)
(*   Step   (lines 166-323: one iteration of the frame loop, whole body),  *)
(*   StepRaise (lines 166-228 when reshape_reward is configured),          *)
(*   Finish (lines 327-409: bootstrap, GAE, reshape, logs, truncation).    *)
(*                                                                         *)
(* Tensors of shape T x P are functions [Frames -> [Procs -> Int]], flat   *)
(* tensors are functions on 0..T*P-1, Python lists are sequences.          *)
(* Floating point numbers are modelled by integers (no rounding).          *)
(* The environment, the policy and the preprocessor are external: what     *)
(* they return at a step is an input of the step, drawn from small sets.   *)
(***************************************************************************)
EXTENDS Integers, Sequences, FiniteSets, TLC

\* ------------------------------------------------------------------ bounds
NumProcs == 2
NumFramesPerProc == 2
MaxCalls == 2

Procs == 0 .. NumProcs - 1
Frames == 0 .. NumFramesPerProc - 1
NumFrames == NumFramesPerProc * NumProcs

\* ---------------------------------------------------------------- channels
\* The auxiliary channels, named by the suffix of their fields.
Chan == {"MESSES", "PERFORMANCE_FULL", "PERFORMANCE",
         "BUTTON_PRESSES", "PHONES_CLEANED", "DIRT_CLEANED"}
\* The channels that also have a T x P reward buffer and reshaped returns.
ReshChan == {"PERFORMANCE", "BUTTON_PRESSES", "PHONES_CLEANED", "DIRT_CLEANED"}

\* obss = [None] * T
NoneObs == -1

VARIABLES
    \* constructor parameters
    recurrent, reshape_reward, discount, gae_lambda,
    recurrence, num_frames_per_proc,
    \* control: position in collect_experiences, loop index, calls started
    pc, i, calls,
    \* the live rollout
    obs, memory, mask,
    \* T x P buffers
    obss, memories, masks, actions, values, rewards, rewards_AUX,
    advantages, log_probs,
    \* running episode accumulators
    log_episode_return, log_episode_reshaped_return, log_episode_num_frames,
    log_episode_return_AUX, log_episode_reshaped_return_AUX,
    \* histories
    log_done_counter, log_return, log_reshaped_return, log_num_frames,
    log_return_AUX, log_reshaped_return_AUX,
    \* locals of collect_experiences
    has, aux, reward, done, info, next_value,
    \* what the call returned
    exps, logs,
    \* history variables (not program state): what each step of the current
    \* call saw and produced; each process's raw rewards since its last
    \* termination; the auxiliary keys seen since construction
    trace, episode_rewards, ever_observed,
    \* history variables: the calls the current collect_experiences made to
    \* the preprocessor, and the memory arguments it handed to the policy
    preprocess_log, policy_memory

config == <<recurrent, reshape_reward, discount, gae_lambda,
            recurrence, num_frames_per_proc>>
live == <<obs, memory, mask>>
buffers == <<obss, memories, masks, actions, values, rewards, rewards_AUX,
             advantages, log_probs>>
accumulators == <<log_episode_return, log_episode_reshaped_return,
                  log_episode_num_frames, log_episode_return_AUX,
                  log_episode_reshaped_return_AUX>>
histories == <<log_done_counter, log_return, log_reshaped_return,
               log_num_frames, log_return_AUX, log_reshaped_return_AUX>>
locals == <<has, aux, reward, done, info, next_value>>
returned == <<exps, logs>>
history == <<trace, episode_rewards, ever_observed>>
external_calls == <<preprocess_log, policy_memory>>
vars == <<config, pc, i, calls, live, buffers, accumulators, histories,
          locals, returned, history, external_calls>>

\* ----------------------------------------------------------------- helpers
Zeros == [p \in Procs |-> 0]
Ones == [p \in Procs |-> 1]
ZerosTP == [t \in Frames |-> Zeros]
\* [0] * num_procs
ZeroList == [k \in 1 .. NumProcs |-> 0]

VAdd(a, b) == [p \in Procs |-> a[p] + b[p]]
VMul(a, b) == [p \in Procs |-> a[p] * b[p]]

Max(a, b) == IF a >= b THEN a ELSE b

\* Mutant of LastN: s[:n], the first n entries.
FirstN(s, n) == IF Len(s) <= n THEN s ELSE SubSeq(s, 1, n)

\* Python's s[-n:] for n >= 1
LastN(s, n) == IF Len(s) <= n THEN s ELSE SubSeq(s, Len(s) - n + 1, Len(s))

Bool2Int(b) == IF b THEN 1 ELSE 0

\* for i, done_ in enumerate(done): if done_  -- the processes visited, in order
DoneProcs(d) == SelectSeq([k \in 1 .. NumProcs |-> k - 1], LAMBDA p : d[p])

\* list.append(acc[p].item()) for every p of the sequence ps, in order
AppendAll(list, acc, ps) == list \o [k \in 1 .. Len(ps) |-> acc[ps[k]]]

\* ------------------------------------------------------------ construction
NoExps == [obs |-> <<>>, memory |-> <<>>, mask |-> <<>>, action |-> <<>>,
           value |-> <<>>, reward |-> <<>>, advantage |-> <<>>,
           returnn |-> <<>>, log_prob |-> <<>>]
NoLogs == [return_per_episode |-> <<>>,
           reshaped_return_per_episode |-> <<>>,
           num_frames_per_episode |-> <<>>,
           num_frames |-> 0,
           per_episode_AUX |-> [c \in Chan |-> <<>>],
           reshaped_per_episode_AUX |-> [c \in ReshChan |-> <<>>],
           numberOfPermutes |-> 0,
           buttonValue |-> 0]
NoInfo == [keys |-> {}, numberOfPermutes |-> 0, buttonValue |-> 0]

\* The fields BaseAlgo.__init__ assigns at lines 76-132.  ResetObs is what
\* env.reset() can return for one process.
Fields(ResetObs) ==
    /\ i = 0 /\ calls = 0
    /\ obs \in [Procs -> ResetObs]
    /\ obss = [t \in Frames |-> [p \in Procs |-> NoneObs]]
    /\ memory = Zeros
    /\ memories = ZerosTP
    /\ mask = Ones
    /\ masks = ZerosTP
    /\ actions = ZerosTP
    /\ values = ZerosTP
    /\ rewards = ZerosTP
    /\ rewards_AUX = [c \in ReshChan |-> ZerosTP]
    /\ advantages = ZerosTP
    /\ log_probs = ZerosTP
    /\ log_episode_return_AUX = [c \in Chan |-> Zeros]
    /\ log_episode_return = Zeros
    /\ log_episode_reshaped_return = Zeros
    /\ log_episode_reshaped_return_AUX = [c \in ReshChan |-> Zeros]
    /\ log_episode_num_frames = Zeros
    /\ log_done_counter = 0
    /\ log_return = ZeroList
    /\ log_return_AUX = [c \in Chan |-> ZeroList]
    /\ log_reshaped_return = ZeroList
    /\ log_reshaped_return_AUX = [c \in ReshChan |-> ZeroList]
    /\ log_num_frames = ZeroList
    \* locals and results do not exist yet
    /\ has = [c \in Chan |-> FALSE]
    /\ aux = [c \in Chan |-> Zeros]
    /\ reward = Zeros
    /\ done = [p \in Procs |-> FALSE]
    /\ info = NoInfo
    /\ next_value = Zeros
    /\ exps = NoExps
    /\ logs = NoLogs
    /\ trace = <<>>
    /\ episode_rewards = [p \in Procs |-> <<>>]
    /\ ever_observed = {}
    /\ preprocess_log = <<>>
    /\ policy_memory = <<>>

\* BaseAlgo.__init__ with the asserts of lines 66-67 passed: the state
\* after construction, for num_frames_per_proc = NumFramesPerProc and
\* recurrence = 1.
InitWith(Recurrent, Reshape, Discount, GaeLambda, ResetObs) ==
    /\ recurrent \in Recurrent
    /\ reshape_reward \in Reshape
    /\ discount \in Discount
    /\ gae_lambda \in GaeLambda
    /\ recurrence = 1
    /\ num_frames_per_proc = NumFramesPerProc
    /\ pc = "idle"
    /\ Fields(ResetObs)

\* ------------------------------------------------- collect_experiences: entry
\* hasMesses = False ... hasDirtCleaned = False; the loop starts at i = 0.
Enter ==
    /\ pc \in {"idle", "raised"}
    /\ calls < MaxCalls
    /\ calls' = calls + 1
    /\ pc' = "loop"
    /\ i' = 0
    /\ has' = [c \in Chan |-> FALSE]
    /\ aux' = [c \in Chan |-> Zeros]
    /\ trace' = <<>>
    /\ preprocess_log' = <<>>
    /\ policy_memory' = <<>>
    /\ UNCHANGED <<config, live, buffers, accumulators, histories,
                   reward, done, info, next_value, returned, episode_rewards,
                   ever_observed>>

\* ------------------------------------------------ collect_experiences: a step
\* The flag that guards the appends to channel c's histories in the done loop:
\* the BUTTON_PRESSES histories are appended under hasPhonesCleaned and the
\* PHONES_CLEANED histories under hasButtonPresses.
AppendFlag(c) ==
    CASE c = "BUTTON_PRESSES" -> "PHONES_CLEANED"
      [] c = "PHONES_CLEANED" -> "BUTTON_PRESSES"
      [] OTHER -> c

\* Mutant of HasAfter: a flag, once set, is never cleared by a later call.
HasSinceConstruction(keys) == [c \in Chan |-> c \in ever_observed \/ c \in keys]

\* if 'key' in info[0]: hasX = True; x = tuple(i['key'] for i in info)
HasAfter(keys) == [c \in Chan |-> has[c] \/ c \in keys]
AuxAfter(keys, x) ==
    [c \in Chan |-> IF c \in keys THEN [p \in Procs |-> x[p].auxv] ELSE aux[c]]

\* The list of observations the live rollout holds, one per process.
LiveObsList == [k \in 1 .. NumProcs |-> obs[k - 1]]

\* self.preprocess_obss(self.obs, device=self.device)   (lines 169 and 327):
\* the call is appended to the history preprocess_log with its argument.
PreprocessedLive(log) == Append(log, LiveObsList)

\* Mutant of MaskedMemory: the memory is handed over as it is.
MemoryUnmasked(mem, m) == mem

\* self.memory * self.mask.unsqueeze(1)   (lines 172 and 330)
MaskedMemory(mem, m) == VMul(mem, m)

\* self.acmodel(preprocessed_obs, self.memory * self.mask.unsqueeze(1)) for a
\* recurrent model, self.acmodel(preprocessed_obs) otherwise (lines 171-174,
\* 329-332): the memory argument is appended to the history policy_memory.
PolicyCalled ==
    IF recurrent THEN Append(policy_memory, MaskedMemory(memory, mask))
    ELSE policy_memory

\* Mutant of Record: the mask is recorded after it has been replaced.
RecordNewMask(x) ==
    /\ obss' = [obss EXCEPT ![i] = obs]
    /\ obs' = [p \in Procs |-> x[p].obs]
    /\ memories' = IF recurrent THEN [memories EXCEPT ![i] = memory] ELSE memories
    /\ memory' = IF recurrent THEN [p \in Procs |-> x[p].memory] ELSE memory
    /\ mask' = [p \in Procs |-> 1 - Bool2Int(x[p].done)]
    /\ masks' = [masks EXCEPT ![i] = mask']
    /\ actions' = [actions EXCEPT ![i] = [p \in Procs |-> x[p].action]]
    /\ values' = [values EXCEPT ![i] = [p \in Procs |-> x[p].value]]

\* lines 213-221: the part of "Update experiences values" common to both
\* branches of the reshape_reward test.
Record(x) ==
    /\ obss' = [obss EXCEPT ![i] = obs]
    /\ obs' = [p \in Procs |-> x[p].obs]
    /\ memories' = IF recurrent THEN [memories EXCEPT ![i] = memory] ELSE memories
    /\ memory' = IF recurrent THEN [p \in Procs |-> x[p].memory] ELSE memory
    /\ masks' = [masks EXCEPT ![i] = mask]
    /\ mask' = [p \in Procs |-> 1 - Bool2Int(x[p].done)]
    /\ actions' = [actions EXCEPT ![i] = [p \in Procs |-> x[p].action]]
    /\ values' = [values EXCEPT ![i] = [p \in Procs |-> x[p].value]]

\* The history variable trace: the live state the step started from and
\* what the policy and the environments produced.
Seen(x, keys) ==
    Append(trace, [x |-> x, keys |-> keys, obs |-> obs, memory |-> memory,
                   mask |-> mask])

\* Mutant of ResetBy: the multiplication by the mask is forgotten.
ResetForgotten(acc, m) == acc

\* Mutant of ResetBy: every process is reset at every step.
ResetEveryProcess(acc, m) == Zeros

\* a * mask for every accumulator (lines 310-323)
ResetBy(acc, m) == VMul(acc, m)

\* One iteration of the frame loop with no reward reshaping.
\* x[p] is what the policy and environment p produced at this step,
\* keys the auxiliary keys of info[0], diag its two pass-through entries.
Step(x, keys, diag) ==
    LET h == HasAfter(keys)
        a == AuxAfter(keys, x)
        rew == [p \in Procs |-> x[p].reward]
        dn == [p \in Procs |-> x[p].done]
        m == [p \in Procs |-> 1 - Bool2Int(x[p].done)]
        ps == DoneProcs(dn)
        \* lines 231-238
        rAUX == [c \in ReshChan |->
                    IF h[c] THEN [rewards_AUX[c] EXCEPT ![i] = a[c]]
                    ELSE rewards_AUX[c]]
        \* lines 243-273
        eAUX == [c \in Chan |->
                    IF h[c] THEN VAdd(log_episode_return_AUX[c], a[c])
                    ELSE log_episode_return_AUX[c]]
        eRet == VAdd(log_episode_return, rew)
        eResh == VAdd(log_episode_reshaped_return, rew)
        eReshAUX == [c \in ReshChan |->
                       VAdd(log_episode_reshaped_return_AUX[c], rAUX[c][i])]
        eFrames == VAdd(log_episode_num_frames, Ones)
    IN
    /\ pc = "loop"
    /\ i < NumFramesPerProc
    /\ ~reshape_reward
    /\ has' = h
    /\ aux' = a
    /\ reward' = rew
    /\ done' = dn
    /\ info' = [keys |-> keys, numberOfPermutes |-> diag.numberOfPermutes,
                buttonValue |-> diag.buttonValue]
    /\ Record(x)
    /\ rewards' = [rewards EXCEPT ![i] = rew]
    /\ rewards_AUX' = rAUX
    /\ log_probs' = [log_probs EXCEPT ![i] = [p \in Procs |-> x[p].log_prob]]
    \* lines 275-308
    /\ log_done_counter' = log_done_counter + Len(ps)
    /\ log_return_AUX' =
         [c \in Chan |-> IF h[AppendFlag(c)]
                         THEN AppendAll(log_return_AUX[c], eAUX[c], ps)
                         ELSE log_return_AUX[c]]
    /\ log_reshaped_return_AUX' =
         [c \in ReshChan |-> IF h[AppendFlag(c)]
                             THEN AppendAll(log_reshaped_return_AUX[c], eReshAUX[c], ps)
                             ELSE log_reshaped_return_AUX[c]]
    /\ log_return' = AppendAll(log_return, eRet, ps)
    /\ log_reshaped_return' = AppendAll(log_reshaped_return, eResh, ps)
    /\ log_num_frames' = AppendAll(log_num_frames, eFrames, ps)
    \* lines 310-323
    /\ log_episode_return' = ResetBy(eRet, m)
    /\ log_episode_return_AUX' = [c \in Chan |-> ResetBy(eAUX[c], m)]
    /\ log_episode_reshaped_return' = ResetBy(eResh, m)
    /\ log_episode_reshaped_return_AUX' = [c \in ReshChan |-> ResetBy(eReshAUX[c], m)]
    /\ log_episode_num_frames' = ResetBy(eFrames, m)
    /\ i' = i + 1
    /\ trace' = Seen(x, keys)
    /\ ever_observed' = ever_observed \cup keys
    /\ preprocess_log' = PreprocessedLive(preprocess_log)
    /\ policy_memory' = PolicyCalled
    /\ episode_rewards' =
         [p \in Procs |-> IF x[p].done THEN <<>>
                          ELSE Append(episode_rewards[p], x[p].reward)]
    /\ UNCHANGED <<config, pc, calls, advantages, next_value, returned>>

\* Mutant of StepRaise: the error is raised only when info[0] reports an
\* auxiliary channel; otherwise the loop goes on with the reshaped reward.
StepRaiseOnlyWithAux(x, keys, diag, rr) ==
    /\ pc = "loop"
    /\ i < NumFramesPerProc
    /\ reshape_reward
    /\ has' = HasAfter(keys)
    /\ aux' = AuxAfter(keys, x)
    /\ reward' = [p \in Procs |-> x[p].reward]
    /\ done' = [p \in Procs |-> x[p].done]
    /\ info' = [keys |-> keys, numberOfPermutes |-> diag.numberOfPermutes,
                buttonValue |-> diag.buttonValue]
    /\ Record(x)
    /\ rewards' = [rewards EXCEPT ![i] = rr]
    /\ pc' = IF keys = {} THEN "loop" ELSE "raised"
    /\ i' = IF keys = {} THEN i + 1 ELSE i
    /\ trace' = Seen(x, keys)
    /\ ever_observed' = ever_observed \cup keys
    /\ preprocess_log' = PreprocessedLive(preprocess_log)
    /\ policy_memory' = PolicyCalled
    /\ UNCHANGED <<config, calls, rewards_AUX, advantages, log_probs,
                   accumulators, histories, next_value, returned,
                   episode_rewards>>

\* Mutant of StepRaise: the error is raised before the environments are
\* stepped and before anything is recorded.
StepRaiseBeforeRecording(x, keys, diag, rr) ==
    /\ pc = "loop"
    /\ i < NumFramesPerProc
    /\ reshape_reward
    /\ pc' = "raised"
    /\ UNCHANGED <<config, i, calls, live, buffers, accumulators, histories,
                   locals, returned, history, external_calls>>

\* The same iteration when a reward-reshaping function is configured:
\* lines 169-226 run, then line 228 raises.  rr[p] is what reshape_reward
\* returned for process p.
StepRaise(x, keys, diag, rr) ==
    /\ pc = "loop"
    /\ i < NumFramesPerProc
    /\ reshape_reward
    /\ has' = HasAfter(keys)
    /\ aux' = AuxAfter(keys, x)
    /\ reward' = [p \in Procs |-> x[p].reward]
    /\ done' = [p \in Procs |-> x[p].done]
    /\ info' = [keys |-> keys, numberOfPermutes |-> diag.numberOfPermutes,
                buttonValue |-> diag.buttonValue]
    /\ Record(x)
    /\ rewards' = [rewards EXCEPT ![i] = rr]
    /\ pc' = "raised"
    /\ trace' = Seen(x, keys)
    /\ ever_observed' = ever_observed \cup keys
    /\ preprocess_log' = PreprocessedLive(preprocess_log)
    /\ policy_memory' = PolicyCalled
    /\ UNCHANGED <<config, i, calls, rewards_AUX, advantages, log_probs,
                   accumulators, histories, next_value, returned,
                   episode_rewards>>

\* ------------------------------------------- collect_experiences: after the loop
\* Mutant of AdvantageRow: the mask of step t is used in place of the mask
\* that follows step t.
AdvantageRowOwnMask(adv, t, boot) ==
    [p \in Procs |->
        LET next_mask == masks[t][p]
            next_val == IF t < NumFramesPerProc - 1 THEN values[t + 1][p] ELSE boot[p]
            next_advantage == IF t < NumFramesPerProc - 1 THEN adv[t + 1][p] ELSE 0
            delta == rewards[t][p] + discount * next_val * next_mask - values[t][p]
        IN delta + discount * gae_lambda * next_advantage * next_mask]

\* Mutant of AdvantageRow: the value bootstrap is not masked.
AdvantageRowUnmaskedValue(adv, t, boot) ==
    [p \in Procs |->
        LET next_mask == IF t < NumFramesPerProc - 1 THEN masks[t + 1][p] ELSE mask[p]
            next_val == IF t < NumFramesPerProc - 1 THEN values[t + 1][p] ELSE boot[p]
            next_advantage == IF t < NumFramesPerProc - 1 THEN adv[t + 1][p] ELSE 0
            delta == rewards[t][p] + discount * next_val - values[t][p]
        IN delta + discount * gae_lambda * next_advantage * next_mask]

\* One iteration of the backward loop of lines 334-340 for every process:
\* the row written to advantages[t], given the buffer adv as it is when the
\* iteration starts and the bootstrap value boot.
AdvantageRow(adv, t, boot) ==
    [p \in Procs |->
        LET next_mask == IF t < NumFramesPerProc - 1 THEN masks[t + 1][p] ELSE mask[p]
            next_val == IF t < NumFramesPerProc - 1 THEN values[t + 1][p] ELSE boot[p]
            next_advantage == IF t < NumFramesPerProc - 1 THEN adv[t + 1][p] ELSE 0
            delta == rewards[t][p] + discount * next_val * next_mask - values[t][p]
        IN delta + discount * gae_lambda * next_advantage * next_mask]

\* for i in reversed(range(T)): self.advantages[i] = ...   (in place)
RECURSIVE GaeLoop(_, _, _)
GaeLoop(adv, t, boot) ==
    IF t < 0 THEN adv
    ELSE GaeLoop([adv EXCEPT ![t] = AdvantageRow(adv, t, boot)], t - 1, boot)

\* Mutant of Transpose: the transposition is forgotten.
TransposeForgotten(buf) == [p \in Procs |-> [t \in Frames |-> buf[p][t]]]

\* tensor.transpose(0, 1): T x P -> P x T
Transpose(buf) == [p \in Procs |-> [t \in Frames |-> buf[t][p]]]

\* tensor.reshape(-1) of a rows x cols tensor: row-major, flat index from 0
Reshape(m, rows, cols) == [k \in 0 .. rows * cols - 1 |-> m[k \div cols][k % cols]]

\* T x P -> P x T -> P * T
Flat(buf) == Reshape(Transpose(buf), NumProcs, NumFramesPerProc)

\* [self.obss[i][j] for j in range(P) for i in range(T)], as a list
RECURSIVE ObsList(_, _)
ObsList(j, t) ==
    IF j >= NumProcs THEN <<>>
    ELSE IF t >= NumFramesPerProc THEN ObsList(j + 1, 0)
    ELSE <<obss[t][j]>> \o ObsList(j, t + 1)

\* The preprocessor (external): what it makes of one raw observation.
Preprocessed(o) == [image |-> o]

\* preprocess_obss(list of observations): one model-ready entry per observation
PreprocessObss(list) == [k \in 0 .. Len(list) - 1 |-> Preprocessed(list[k + 1])]

\* Mutant of PreprocessedAfterLoop: the preprocessor is not called for the
\* bootstrap value.
PreprocessedBatchOnly(log) == Append(log, ObsList(0, 0))

\* The two calls after the loop: self.preprocess_obss(self.obs) at line 327
\* and self.preprocess_obss(exps.obs) at line 369.
PreprocessedAfterLoop(log) == Append(PreprocessedLive(log), ObsList(0, 0))

\* Mutant of FlatAdd: the return target is taken as advantage - value.
FlatSub(a, b) == [k \in DOMAIN a |-> b[k] - a[k]]

\* exps.returnn = exps.value + exps.advantage
FlatAdd(a, b) == [k \in DOMAIN a |-> a[k] + b[k]]

\* lines 350-369
Experiences(adv) ==
    [obs |-> PreprocessObss(ObsList(0, 0)),
     memory |-> IF recurrent THEN Flat(memories) ELSE <<>>,
     mask |-> IF recurrent THEN Flat(masks) ELSE <<>>,
     action |-> Flat(actions),
     value |-> Flat(values),
     reward |-> Flat(rewards),
     advantage |-> Flat(adv),
     returnn |-> FlatAdd(Flat(values), Flat(adv)),
     log_prob |-> Flat(log_probs)]

\* Mutant of Keep: the floor of num_procs is forgotten.
KeepNoFloor == log_done_counter

\* keep = max(self.log_done_counter, self.num_procs)
Keep == Max(log_done_counter, NumProcs)

\* lines 375-397
Logs ==
    [return_per_episode |-> LastN(log_return, Keep),
     reshaped_return_per_episode |-> LastN(log_reshaped_return, Keep),
     num_frames_per_episode |-> LastN(log_num_frames, Keep),
     num_frames |-> NumFrames,
     per_episode_AUX |-> [c \in Chan |-> LastN(log_return_AUX[c], Keep)],
     reshaped_per_episode_AUX |->
        [c \in ReshChan |-> LastN(log_reshaped_return_AUX[c], Keep)],
     numberOfPermutes |-> info.numberOfPermutes,
     buttonValue |-> info.buttonValue]

\* Mutant of Truncated: the truncation is forgotten.
TruncationForgotten(list) == list

\* Mutant of Truncated: one entry too few is kept.
TruncatedShort(list) == LastN(list, NumProcs - 1)

\* self.log_return = self.log_return[-self.num_procs:]   (lines 405-407)
Truncated(list) == LastN(list, NumProcs)

\* Lines 327-409.  boot[p] is the value the policy returned for the final
\* live observation of process p.
Finish(boot) ==
    LET adv == GaeLoop(advantages, NumFramesPerProc - 1, boot) IN
    /\ pc = "loop"
    /\ i = NumFramesPerProc
    /\ next_value' = boot
    /\ advantages' = adv
    /\ exps' = Experiences(adv)
    /\ logs' = Logs
    /\ log_done_counter' = 0
    /\ log_return' = Truncated(log_return)
    /\ log_reshaped_return' = Truncated(log_reshaped_return)
    /\ log_num_frames' = Truncated(log_num_frames)
    /\ pc' = "idle"
    /\ preprocess_log' = PreprocessedAfterLoop(preprocess_log)
    /\ policy_memory' = PolicyCalled
    /\ UNCHANGED <<config, i, calls, live, obss, memories, masks, actions,
                   values, rewards, rewards_AUX, log_probs, accumulators,
                   log_return_AUX, log_reshaped_return_AUX,
                   has, aux, reward, done, info, history>>

\* ------------------------------------------------------------ specifications
\* What one process's policy evaluation and environment step produce.
Outcome(Obs, Rew, Done, Act, Val, LogProb, Mem, Aux) ==
    [obs : Obs, reward : Rew, done : Done, action : Act, value : Val,
     log_prob : LogProb, memory : Mem, auxv : Aux]

Diag == [numberOfPermutes |-> 3, buttonValue |-> 5]

\* Episode statistics: rewards, terminations and channel keys vary.
LogOutcomes ==
    {o \in Outcome({1}, {1, 2}, BOOLEAN, {0}, {0}, {0}, {0}, {1}) :
        o.done <=> o.reward = 2}
LogKeys == {{}, {"PERFORMANCE", "BUTTON_PRESSES"}, Chan}

\* The configured reward-reshaping function (external), applied to every
\* process: what it returns for the outcome x of a step.
Reshaped(x) == [p \in Procs |-> x[p].reward + 1]

Init == InitWith({FALSE}, BOOLEAN, {1}, {1}, {0})

Next ==
    \/ Enter
    \/ \E x \in [Procs -> LogOutcomes], keys \in LogKeys : Step(x, keys, Diag)
    \/ \E x \in [Procs -> LogOutcomes], keys \in LogKeys :
          StepRaise(x, keys, Diag, Reshaped(x))
    \/ Finish(Zeros)

Spec == Init /\ [][Next]_vars

\* The batch: observations, actions, values, rewards, memories and
\* terminations vary, with a recurrent and a non-recurrent policy and
\* several discounts; no auxiliary channel is reported.
BatchOutcomes ==
    {[obs |-> 1, reward |-> 1, done |-> FALSE, action |-> 1, value |-> 2,
      log_prob |-> -1, memory |-> 1, auxv |-> 0],
     [obs |-> 2, reward |-> 3, done |-> TRUE, action |-> 2, value |-> 1,
      log_prob |-> -2, memory |-> 2, auxv |-> 0]}
BootValues == {0, 1}

InitBatch == InitWith(BOOLEAN, {FALSE}, {1, 2}, {1, 3}, {0})

NextBatch ==
    \/ Enter
    \/ \E x \in [Procs -> BatchOutcomes] : Step(x, {}, Diag)
    \/ \E boot \in [Procs -> BootValues] : Finish(boot)

SpecBatch == InitBatch /\ [][NextBatch]_vars

\* Construction: the arguments recurrence and num_frames_per_proc of
\* BaseAlgo.__init__ and the model's recurrent flag vary.
RecurrenceArgs == 0 .. 3
FramesArgs == 0 .. 6

\* assert self.acmodel.recurrent or self.recurrence == 1
\* assert self.num_frames_per_proc % self.recurrence == 0
\* (a recurrence of 0 raises ZeroDivisionError in the second line)
ConstructorAccepts ==
    /\ recurrent \/ recurrence = 1
    /\ recurrence # 0
    /\ num_frames_per_proc % recurrence = 0

\* BaseAlgo.__init__: it raises at lines 66-67 or builds the instance.  The
\* fields are shown with the values lines 76-132 give them already before
\* the call; an instance exists from pc = "idle" on.
Construct ==
    /\ pc = "new"
    /\ pc' = IF ConstructorAccepts THEN "idle" ELSE "failed"
    /\ UNCHANGED <<config, i, calls, live, buffers, accumulators, histories,
                   locals, returned, history, external_calls>>

InitConstruct ==
    /\ recurrent \in BOOLEAN
    /\ reshape_reward = FALSE
    /\ discount = 1
    /\ gae_lambda = 1
    /\ recurrence \in RecurrenceArgs
    /\ num_frames_per_proc \in FramesArgs
    /\ pc = "new"
    /\ Fields({0})

\* After construction only the entry into collect_experiences is followed.
NextConstruct ==
    \/ Construct
    \/ Enter

SpecConstruct == InitConstruct /\ [][NextConstruct]_vars

\* Aborted calls: a reward-reshaping function is configured, the model is
\* recurrent or not, and every call raises at line 228.
RaiseKeys == {{}, Chan}

InitRaise == InitWith(BOOLEAN, {TRUE}, {1}, {1}, {0})

NextRaise ==
    \/ Enter
    \/ \E x \in [Procs -> BatchOutcomes], keys \in RaiseKeys :
          StepRaise(x, keys, Diag, Reshaped(x))

SpecRaise == InitRaise /\ [][NextRaise]_vars

\* ------------------------------------------------------------------ claims
\* collect_experiences has returned and no later call has started.
Returned == pc = "idle" /\ calls > 0

\* C1: entry k = p*T + t of every field of the returned flat batch is what
\* was recorded for process p at step t of the call: the observation,
\* memory and mask the step started from, the action, value, reward and
\* log-probability it produced, and the advantage computed for it.
C1_Contiguity ==
    Returned =>
        \A p \in Procs, t \in Frames :
            LET k == p * NumFramesPerProc + t
                s == trace[t + 1]
            IN /\ exps.obs[k] = Preprocessed(s.obs[p])
               /\ exps.action[k] = s.x[p].action
               /\ exps.value[k] = s.x[p].value
               /\ exps.reward[k] = s.x[p].reward
               /\ exps.log_prob[k] = s.x[p].log_prob
               /\ exps.advantage[k] = advantages[t][p]
               /\ recurrent => /\ exps.memory[k] = s.memory[p]
                               /\ exps.mask[k] = s.mask[p]

\* A second, recurrent call has returned in which process 0's first two
\* steps differ in action, mask and observation, and processes 0 and 1
\* differ in the action and memory of their first step.
C1_Witness ==
    /\ Returned /\ recurrent /\ calls = 2
    /\ exps.action[0] # exps.action[1]
    /\ exps.action[0] # exps.action[NumFramesPerProc]
    /\ exps.mask[0] # exps.mask[1]
    /\ exps.memory[0] # exps.memory[NumFramesPerProc]
    /\ exps.obs[0] # exps.obs[1]

\* C2: every field of the returned batch has exactly T*N entries (indexed
\* 0..T*N-1), and returnn[k] = value[k] + advantage[k] for every k.
C2_Shape ==
    Returned =>
        /\ \A f \in {"obs", "action", "value", "reward", "advantage",
                     "returnn", "log_prob"} :
              DOMAIN exps[f] = 0 .. NumFramesPerProc * NumProcs - 1
        /\ recurrent => \A f \in {"memory", "mask"} :
              DOMAIN exps[f] = 0 .. NumFramesPerProc * NumProcs - 1
        /\ \A k \in 0 .. NumFramesPerProc * NumProcs - 1 :
              exps.returnn[k] = exps.value[k] + exps.advantage[k]

\* A batch whose values and advantages are not all zero has been returned.
C2_Witness ==
    /\ Returned
    /\ \E k \in DOMAIN exps.value : exps.value[k] > 1 /\ exps.advantage[k] > 0
    /\ \E k \in DOMAIN exps.value : exps.advantage[k] < 0

\* What follows step t for process p in the buffers of a returned call.
NextMask(t, p) == IF t < NumFramesPerProc - 1 THEN masks[t + 1][p] ELSE mask[p]
NextVal(t, p) == IF t < NumFramesPerProc - 1 THEN values[t + 1][p] ELSE next_value[p]
NextAdv(t, p) == IF t < NumFramesPerProc - 1 THEN advantages[t + 1][p] ELSE 0

\* The reference GAE estimator: the masked, discounted sum of TD residuals.
TdResidual(t, p) ==
    rewards[t][p] + discount * NextVal(t, p) * NextMask(t, p) - values[t][p]
RECURSIVE Power(_, _)
Power(b, n) == IF n = 0 THEN 1 ELSE b * Power(b, n - 1)
RECURSIVE MaskProduct(_, _, _)
MaskProduct(t, l, p) ==
    IF l = 0 THEN 1 ELSE NextMask(t + l - 1, p) * MaskProduct(t, l - 1, p)
RECURSIVE GaeSum(_, _, _)
GaeSum(t, l, p) ==
    IF t + l > NumFramesPerProc - 1 THEN 0
    ELSE Power(discount * gae_lambda, l) * MaskProduct(t, l, p) * TdResidual(t + l, p)
         + GaeSum(t, l + 1, p)

\* C3: after the call, for every step t and process p,
\* advantages[t] = rewards[t] + discount*next_value*next_mask - values[t]
\*                 + discount*gae_lambda*next_advantage*next_mask
\* with next_* taken from slot t+1, or from the bootstrap value, the live
\* mask and 0 at t = T-1; and it equals the reference GAE sum.
C3_Gae ==
    Returned =>
        \A t \in Frames, p \in Procs :
            /\ advantages[t][p] =
                  rewards[t][p] + discount * NextVal(t, p) * NextMask(t, p)
                  - values[t][p]
                  + discount * gae_lambda * NextAdv(t, p) * NextMask(t, p)
            /\ advantages[t][p] = GaeSum(t, 0, p)

\* A call has returned with a process that stayed alive through the call
\* with a non-zero bootstrap value, with discount and lambda other than 1.
C3_Witness ==
    /\ Returned /\ discount = 2 /\ gae_lambda = 3
    /\ \E p \in Procs :
          /\ \A t \in Frames : NextMask(t, p) = 1
          /\ masks[0][p] = 0
          /\ next_value[p] = 1
          /\ advantages[NumFramesPerProc - 1][p] # 0

\* C4: GAE boundary law: when the mask that follows step t is 0 for p,
\* advantages[t][p] = rewards[t][p] - values[t][p].
C4_Boundary ==
    Returned =>
        \A t \in Frames, p \in Procs :
            NextMask(t, p) = 0 => advantages[t][p] = rewards[t][p] - values[t][p]

\* A call has returned in which an episode ended inside the buffer, before
\* a step with a non-zero value and advantage, and another ended at the
\* last step with a non-zero bootstrap value.
C4_Witness ==
    /\ Returned /\ discount = 2
    /\ \E p \in Procs :
          /\ NextMask(0, p) = 0 /\ values[1][p] # 0 /\ advantages[1][p] # 0
    /\ \E p \in Procs :
          /\ NextMask(NumFramesPerProc - 1, p) = 0 /\ next_value[p] # 0

\* ------------------------------------------------ claims: episode statistics
\* The transition is one completed iteration of the frame loop.
StepTaken == pc = "loop" /\ i' = i + 1

RECURSIVE SumSeq(_)
SumSeq(q) == IF q = <<>> THEN 0 ELSE Head(q) + SumSeq(Tail(q))

\* The number of done flags among processes 0..p of the vector d.
Rank(p, d) == Cardinality({q \in Procs : q <= p /\ d[q]})

\* new is old with val[p] appended for every process p with d[p], in
\* process order, and nothing else.
AppendedFor(old, new, d, val) ==
    /\ Len(new) = Len(old) + Cardinality({p \in Procs : d[p]})
    /\ SubSeq(new, 1, Len(old)) = old
    /\ \A p \in Procs : d[p] => new[Len(old) + Rank(p, d)] = val[p]

\* The number of done flags that were true during the current call.
RECURSIVE DoneCount(_)
DoneCount(tr) ==
    IF tr = <<>> THEN 0
    ELSE Cardinality({p \in Procs : Head(tr).x[p].done}) + DoneCount(Tail(tr))

\* C5: at every step, one entry per process whose done flag is true is
\* appended to log_return, and it is the sum of that process's raw rewards
\* since its previous termination (or since construction), this step's
\* reward and the steps of earlier calls included.
C5_EpisodeReturn ==
    [][StepTaken =>
          AppendedFor(log_return, log_return', done',
                      [p \in Procs |-> SumSeq(episode_rewards[p]) + reward'[p]])]_vars

\* In the second call process 0 alone terminates at the first step, ending
\* an episode that ran through the whole first call (rewards 1, 1, 2).
C5_Witness ==
    /\ pc = "loop" /\ calls = 2 /\ i = 1
    /\ done[0] /\ ~done[1]
    /\ Len(log_return) = NumProcs + 1
    /\ log_return[Len(log_return)] = NumFramesPerProc + 2

\* C6: the return_per_episode list of every returned logs has exactly
\* max(d, N) entries, d being the number of done flags true in that call.
C6_WindowLength ==
    Returned => Len(logs.return_per_episode) = Max(DoneCount(trace), NumProcs)

\* A second call has returned with more terminations than processes, after
\* a first call that also completed episodes.
C6_Witness ==
    /\ Returned /\ calls = 2
    /\ DoneCount(trace) > NumProcs
    /\ Len(logs.return_per_episode) > NumProcs

\* C7 as stated: a call in which no done flag is true returns the same
\* return_per_episode window as the call before it, and not an empty one.
C7_SameWindow ==
    [][(pc = "loop" /\ pc' = "idle" /\ calls >= 2 /\ DoneCount(trace) = 0) =>
          /\ logs'.return_per_episode = logs.return_per_episode
          /\ logs'.return_per_episode # <<>>]_vars

\* C7 amended: a call in which no done flag is true returns the last
\* num_procs entries of the window the call before it returned (that
\* window itself when it had num_procs entries), which is not empty.
C7_TrailingWindow ==
    [][(pc = "loop" /\ pc' = "idle" /\ calls >= 2 /\ DoneCount(trace) = 0) =>
          LET prev == logs.return_per_episode IN
          /\ Len(prev) >= NumProcs
          /\ logs'.return_per_episode =
                SubSeq(prev, Len(prev) - NumProcs + 1, Len(prev))
          /\ logs'.return_per_episode # <<>>]_vars

\* A second call without terminations has returned after a first call that
\* completed episodes with non-zero returns.
C7_Witness ==
    /\ Returned /\ calls = 2 /\ DoneCount(trace) = 0
    /\ \A k \in 1 .. Len(logs.return_per_episode) :
          logs.return_per_episode[k] > 0

\* Every per-episode list of the returned logs.
PerEpisodeLists ==
    {logs.return_per_episode, logs.reshaped_return_per_episode,
     logs.num_frames_per_episode}
    \cup {logs.per_episode_AUX[c] : c \in Chan}
    \cup {logs.reshaped_per_episode_AUX[c] : c \in ReshChan}

\* s is the last n entries of h.
IsTail(s, h, n) == Len(h) >= n /\ s = SubSeq(h, Len(h) - n + 1, Len(h))

Min(a, b) == IF a <= b THEN a ELSE b

\* C8 as stated: every per-episode list of the returned logs, the
\* auxiliary ones included, has exactly keep = max(done counter, num_procs)
\* entries.
C8_AllKeep ==
    Returned =>
        \A l \in PerEpisodeLists : Len(l) = Max(DoneCount(trace), NumProcs)

\* C8 amended: with keep = max(done counter of this call, num_procs), the
\* return, reshaped-return and frame-count lists have exactly keep entries,
\* and every auxiliary list is the last min(keep, length of the history)
\* entries of its channel's history: at least num_procs and at most keep.
C8_Windows ==
    Returned =>
        LET keep == Max(DoneCount(trace), NumProcs) IN
        /\ Len(logs.return_per_episode) = keep
        /\ Len(logs.reshaped_return_per_episode) = keep
        /\ Len(logs.num_frames_per_episode) = keep
        /\ IsTail(log_return, logs.return_per_episode, NumProcs)
        /\ IsTail(log_reshaped_return, logs.reshaped_return_per_episode, NumProcs)
        /\ IsTail(log_num_frames, logs.num_frames_per_episode, NumProcs)
        /\ \A c \in Chan :
              /\ IsTail(logs.per_episode_AUX[c], log_return_AUX[c],
                        Min(keep, Len(log_return_AUX[c])))
              /\ Len(logs.per_episode_AUX[c]) >= NumProcs
              /\ Len(logs.per_episode_AUX[c]) <= keep
        /\ \A c \in ReshChan :
              /\ IsTail(logs.reshaped_per_episode_AUX[c], log_reshaped_return_AUX[c],
                        Min(keep, Len(log_reshaped_return_AUX[c])))
              /\ Len(logs.reshaped_per_episode_AUX[c]) >= NumProcs
              /\ Len(logs.reshaped_per_episode_AUX[c]) <= keep

\* A call has returned in which one auxiliary list is shorter than keep and
\* another is a proper tail of a longer history.
C8_Witness ==
    /\ Returned
    /\ \E c \in Chan : Len(logs.per_episode_AUX[c]) < Len(logs.return_per_episode)
    /\ \E c \in Chan :
          /\ Len(logs.per_episode_AUX[c]) = Len(logs.return_per_episode)
          /\ Len(log_return_AUX[c]) > Len(logs.per_episode_AUX[c])
          /\ logs.per_episode_AUX[c][1] > 0

\* The channels whose history appends are guarded by their own flag.  The
\* appends of BUTTON_PRESSES and PHONES_CLEANED are guarded by each other's
\* flag (lines 290-298).
OwnFlagChan == {"MESSES", "PERFORMANCE_FULL", "PERFORMANCE", "DIRT_CLEANED"}

\* Channel c's running sums as the done loop of the step reads them.
RunningSum(c) == [p \in Procs |-> log_episode_return_AUX[c][p] + aux'[c][p]]

\* C9 as stated, for the channels of OwnFlagChan: at a step, every such
\* channel observed at any point since construction gets the running sum
\* of every process whose done flag is true appended to its history.
C9_EverObserved ==
    [][StepTaken =>
          \A c \in OwnFlagChan :
              c \in ever_observed' =>
                  AppendedFor(log_return_AUX[c], log_return_AUX'[c], done',
                              RunningSum(c))]_vars

\* The channel's key was in info[0] at some step of the current call so far.
ObservedThisCall(c, tr) == \E k \in 1 .. Len(tr) : c \in tr[k].keys

\* C9 amended: at a step, every channel of OwnFlagChan whose key was in
\* process 0's metadata at this or an earlier step of the same call gets
\* the running sum of every process whose done flag is true appended to its
\* history; a channel not observed in the current call gets nothing, also
\* when it was observed in an earlier call.
C9_ObservedThisCall ==
    [][StepTaken =>
          \A c \in OwnFlagChan :
              IF ObservedThisCall(c, trace')
              THEN AppendedFor(log_return_AUX[c], log_return_AUX'[c], done',
                               RunningSum(c))
              ELSE log_return_AUX'[c] = log_return_AUX[c]]_vars

\* In the second call a process terminates at a step where PERFORMANCE has
\* been observed in this call and MESSES only in the first call; the
\* PERFORMANCE history has received a sum of several steps.
C9_Witness ==
    /\ pc = "loop" /\ calls = 2 /\ i >= 1
    /\ \E p \in Procs : done[p]
    /\ has["PERFORMANCE"] /\ ~has["MESSES"] /\ "MESSES" \in ever_observed
    /\ Len(log_return_AUX["PERFORMANCE"]) > NumProcs
    /\ log_return_AUX["PERFORMANCE"][Len(log_return_AUX["PERFORMANCE"])] > 1
    /\ Len(log_return_AUX["MESSES"]) = NumProcs

\* C10: at a step whose info[0] lacks a channel's key the channel
\* contributes zero: slot i of its reward buffer is zero after the step and
\* its running accumulators are not increased by the step.
C10_AbsentIsZero ==
    [][StepTaken =>
          \A c \in Chan \ info'.keys :
              /\ c \in ReshChan =>
                    /\ rewards_AUX'[c][i] = Zeros
                    /\ \A p \in Procs :
                          log_episode_reshaped_return_AUX'[c][p]
                             <= log_episode_reshaped_return_AUX[c][p]
              /\ \A p \in Procs :
                    log_episode_return_AUX'[c][p] <= log_episode_return_AUX[c][p]]_vars

\* ---------------------------------------------------------------------- C11
\* C11: construction fails whenever num_frames_per_proc is not a positive
\* multiple of recurrence, or the model is not recurrent and recurrence is
\* not 1: every instance that exists, and every instance that has entered
\* collect_experiences, satisfies both preconditions.
C11_PreconditionsChecked ==
    pc \in {"idle", "loop"} =>
        /\ recurrent \/ recurrence = 1
        /\ recurrence # 0
        /\ num_frames_per_proc > 0
        /\ num_frames_per_proc % recurrence = 0

\* ---------------------------------------------------------------------- C12
\* C12: with a reward-reshaping function configured no call of
\* collect_experiences returns: nothing is ever returned (no batch, no
\* logs), a call never gets past its first step, and a call that has left
\* the loop has raised, whichever auxiliary keys the step reported.
C12_ReshapeRaises ==
    reshape_reward =>
        /\ ~Returned
        /\ exps = NoExps
        /\ logs = NoLogs
        /\ pc = "loop" => i = 0
        /\ (calls > 0 /\ pc # "loop") => pc = "raised"

\* Both calls have raised; the step of the second call reported every
\* auxiliary key.
C12_Witness ==
    /\ reshape_reward
    /\ pc = "raised"
    /\ calls = 2
    /\ info.keys = Chan
    /\ ever_observed = Chan
    /\ has["PERFORMANCE"]

\* A call aborts at line 228.
RaiseTaken == pc = "loop" /\ pc' = "raised"

\* ---------------------------------------------------------------------- C13
\* C13: after the bookkeeping of a step every running accumulator (raw,
\* reshaped and frame count, and those of every auxiliary channel) is 0 for
\* each process whose done flag was true at that step, and for each other
\* process it is the value that step's addition gave it.
C13_ResetExactlyDone ==
    [][StepTaken =>
        \A p \in Procs :
            IF done'[p]
            THEN /\ log_episode_return'[p] = 0
                 /\ log_episode_reshaped_return'[p] = 0
                 /\ log_episode_num_frames'[p] = 0
                 /\ \A c \in Chan : log_episode_return_AUX'[c][p] = 0
                 /\ \A c \in ReshChan : log_episode_reshaped_return_AUX'[c][p] = 0
            ELSE /\ log_episode_return'[p] = log_episode_return[p] + reward'[p]
                 /\ log_episode_reshaped_return'[p] =
                       log_episode_reshaped_return[p] + rewards'[i][p]
                 /\ log_episode_num_frames'[p] = log_episode_num_frames[p] + 1
                 /\ \A c \in Chan :
                       log_episode_return_AUX'[c][p] =
                          log_episode_return_AUX[c][p]
                             + (IF has'[c] THEN aux'[c][p] ELSE 0)
                 /\ \A c \in ReshChan :
                       log_episode_reshaped_return_AUX'[c][p] =
                          log_episode_reshaped_return_AUX[c][p]
                             + rewards_AUX'[c][i][p]]_vars

\* Process 0 has just terminated after a first step that did not end its
\* episode, process 1 has not terminated: the accumulators of process 0 read
\* 0, those of process 1 hold two steps.
C13_Witness ==
    /\ pc = "loop"
    /\ i = 2
    /\ done[0] /\ ~done[1]
    /\ trace[1].x[0].reward = 1
    /\ has["PERFORMANCE"]
    /\ log_episode_return[0] = 0 /\ log_episode_return[1] = 2
    /\ log_episode_num_frames[0] = 0 /\ log_episode_num_frames[1] = 2
    /\ log_episode_return_AUX["PERFORMANCE"][0] = 0
    /\ log_episode_return_AUX["PERFORMANCE"][1] = 2
    /\ log_episode_reshaped_return_AUX["PERFORMANCE"][1] = 2

\* ---------------------------------------------------------------------- C14
\* C14: the mask recorded at step t of a call is, for every process, 0 when
\* the process's done flag was true at the environment step before (step
\* t - 1 of the call, or the last step of the call before when t = 0) and 1
\* otherwise, and 1 at the very first step after construction; a recorded
\* row is not changed by the rest of the call.
C14_MaskIsPrecedingDone ==
    [][IF StepTaken \/ RaiseTaken
       THEN /\ \A p \in Procs :
                 masks'[i][p] = IF calls = 1 /\ i = 0 THEN 1
                                ELSE IF done[p] THEN 0 ELSE 1
            /\ \A t \in Frames : t # i => masks'[t] = masks[t]
       ELSE masks' = masks]_vars

\* The first step of the second call has been taken after a call that
\* returned: process 0 had terminated at the last step of the first call and
\* process 1 had not.
C14_Witness ==
    /\ ~reshape_reward
    /\ pc = "loop"
    /\ calls = 2
    /\ i = 1
    /\ masks[0][0] = 0
    /\ masks[0][1] = 1
    /\ done[1]

\* ---------------------------------------------------------------------- C15
FinishTaken == pc = "loop" /\ pc' = "idle"

\* s is h with entries appended, or h itself.
Extends(s, h) == Len(s) >= Len(h) /\ SubSeq(s, 1, Len(h)) = h

\* C15: when a call returns, the done counter is 0 and the return,
\* reshaped-return and frame-count histories are their own last num_procs
\* entries; no transition ever shortens an auxiliary channel's history
\* (raw or reshaped): it only gets entries appended.
C15_CoreBoundedAuxGrows ==
    [][/\ FinishTaken =>
            /\ log_done_counter' = 0
            /\ IsTail(log_return', log_return, NumProcs)
            /\ IsTail(log_reshaped_return', log_reshaped_return, NumProcs)
            /\ IsTail(log_num_frames', log_num_frames, NumProcs)
       /\ \A c \in Chan : Extends(log_return_AUX'[c], log_return_AUX[c])
       /\ \A c \in ReshChan :
             Extends(log_reshaped_return_AUX'[c], log_reshaped_return_AUX[c])]_vars

\* The second call has returned after four terminations: its window had
\* four entries, the core histories are back to num_procs entries, and the
\* PERFORMANCE history has grown past num_procs and kept everything.
C15_Witness ==
    /\ Returned
    /\ calls = 2
    /\ Len(logs.return_per_episode) = 4
    /\ log_done_counter = 0
    /\ Len(log_return) = NumProcs
    /\ Len(log_reshaped_return) = NumProcs
    /\ Len(log_num_frames) = NumProcs
    /\ Len(log_return_AUX["PERFORMANCE"]) > NumProcs + 4
    /\ Len(log_reshaped_return_AUX["PERFORMANCE"]) > NumProcs + 4

\* ---------------------------------------------------------------------- C16
\* Channel c's key has been in process 0's metadata at every step of the
\* call so far.
ObservedAtEveryStep(c, tr) == \A k \in 1 .. Len(tr) : c \in tr[k].keys

\* C16: for every auxiliary channel, at a step of a call in which the
\* channel's key has been present at every step, the channel's own history
\* gets one entry appended for each process whose done flag is true, equal
\* to the channel's running sum for that process, whatever other keys are
\* present.
C16_OwnHistoryAppended ==
    [][StepTaken =>
          \A c \in Chan :
              ObservedAtEveryStep(c, trace') =>
                  AppendedFor(log_return_AUX[c], log_return_AUX'[c], done',
                              RunningSum(c))]_vars

\* ---------------------------------------------------------------------- C17
\* C17: at the end of the loop of a call every cell of the T x P buffers
\* holds what a step of that call recorded; an auxiliary channel whose key
\* has been absent from process 0's metadata at every step of the call adds
\* nothing to its reshaped accumulators, and its reward buffer is all zero
\* when the loop ends.
C17_NoCarryOver ==
    [][StepTaken =>
        /\ i' = NumFramesPerProc =>
              \A t \in Frames, p \in Procs :
                  /\ obss'[t][p] = trace'[t + 1].obs[p]
                  /\ masks'[t][p] = trace'[t + 1].mask[p]
                  /\ actions'[t][p] = trace'[t + 1].x[p].action
                  /\ values'[t][p] = trace'[t + 1].x[p].value
                  /\ rewards'[t][p] = trace'[t + 1].x[p].reward
                  /\ log_probs'[t][p] = trace'[t + 1].x[p].log_prob
        /\ \A c \in ReshChan :
              ~ObservedThisCall(c, trace') =>
                  /\ i' = NumFramesPerProc => rewards_AUX'[c] = ZerosTP
                  /\ \A p \in Procs :
                        log_episode_reshaped_return_AUX'[c][p] =
                           IF done'[p] THEN 0
                           ELSE log_episode_reshaped_return_AUX[c][p]]_vars

\* ---------------------------------------------------------------------- C18
\* C18 as stated: a call that has returned has invoked the preprocessor
\* T + 1 times.
C18_OncePerStepPlusBatch ==
    Returned => Len(preprocess_log) = NumFramesPerProc + 1

\* C18 amended: inside the loop the preprocessor has been invoked once per
\* step taken, each time on the live observations that step started from; a
\* call that has returned has invoked it T + 2 times: once per step, once on
\* the final live observations (for the bootstrap value) and once on the
\* flat batch of T * P observations.
C18_OncePerStepPlusTwo ==
    /\ pc = "loop" =>
          /\ Len(preprocess_log) = i
          /\ \A k \in 1 .. i, p \in Procs :
                preprocess_log[k][p + 1] = trace[k].obs[p]
    /\ Returned =>
          /\ Len(preprocess_log) = NumFramesPerProc + 2
          /\ \A k \in 1 .. NumFramesPerProc, p \in Procs :
                preprocess_log[k][p + 1] = trace[k].obs[p]
          /\ preprocess_log[NumFramesPerProc + 1] = LiveObsList
          /\ Len(preprocess_log[NumFramesPerProc + 2]) = NumFrames
          /\ \A k \in 0 .. NumFrames - 1 :
                exps.obs[k] = Preprocessed(preprocess_log[NumFramesPerProc + 2][k + 1])

\* The second call has returned; its last step produced different
\* observations for the two processes, and these were preprocessed for the
\* bootstrap value.
C18_Witness ==
    /\ Returned
    /\ calls = 2
    /\ Len(preprocess_log) = NumFramesPerProc + 2
    /\ preprocess_log[NumFramesPerProc + 1] = <<2, 1>>
    /\ obs[0] = 2 /\ obs[1] = 1

\* ---------------------------------------------------------------------- C19
\* C19: with a recurrent model every evaluation of the policy (one per
\* step, and the bootstrap evaluation after the loop) is handed, for every
\* process, the live memory if the process's preceding environment step did
\* not end an episode and 0 if it did, the preceding step being the last
\* step of the call before at the first step of a call.
C19_PolicyMemoryMasked ==
    [][(recurrent /\ (StepTaken \/ RaiseTaken \/ FinishTaken)) =>
          /\ Len(policy_memory') = Len(policy_memory) + 1
          /\ \A p \in Procs :
                policy_memory'[Len(policy_memory')][p] =
                   IF done[p] THEN 0 ELSE memory[p]]_vars

\* The first step of the second call has been taken with a recurrent model:
\* both processes carried a non-zero memory over from the first call, whose
\* last step ended the episode of process 0 only; the policy was handed 0
\* for process 0 and the carried memory for process 1.
C19_Witness ==
    /\ recurrent
    /\ pc = "loop"
    /\ calls = 2
    /\ i = 1
    /\ memories[0][0] # 0
    /\ memories[0][1] # 0
    /\ masks[0][0] = 0
    /\ policy_memory[1][0] = 0
    /\ policy_memory[1][1] = memories[0][1]

\* ---------------------------------------------------------------------- C20
\* C20: when a call aborts at line 228 the environments have been stepped
\* exactly once in that call, the live observation and mask (and the memory
\* of a recurrent model) are the ones that step produced, slot 0 of the
\* observation, mask, action, value and reward buffers (and of the memory
\* buffer if recurrent) has been written, and the accumulators, the
\* histories and the done counter are what they were before the call.
C20_AbortNotStatePreserving ==
    [][RaiseTaken =>
        LET x == trace'[1].x IN
        /\ i = 0
        /\ Len(trace') = 1
        /\ obs' = [p \in Procs |-> x[p].obs]
        /\ mask' = [p \in Procs |-> 1 - Bool2Int(x[p].done)]
        /\ memory' = IF recurrent THEN [p \in Procs |-> x[p].memory] ELSE memory
        /\ obss'[0] = obs
        /\ masks'[0] = mask
        /\ memories'[0] = IF recurrent THEN memory ELSE memories[0]
        /\ actions'[0] = [p \in Procs |-> x[p].action]
        /\ values'[0] = [p \in Procs |-> x[p].value]
        /\ rewards'[0] = Reshaped(x)
        /\ UNCHANGED <<accumulators, histories>>]_vars

\* A second call has aborted after the first: the live observation, mask and
\* memory differ from what the call started with (slot 0 of the buffers),
\* the histories are still those of construction.
C20_Witness ==
    /\ pc = "raised"
    /\ calls = 2
    /\ recurrent
    /\ \A p \in Procs : obs[p] # obss[0][p]
    /\ \A p \in Procs : mask[p] # masks[0][p]
    /\ \A p \in Procs : memory[p] # memories[0][p]
    /\ rewards[0][0] = 4
    /\ log_return = ZeroList
    /\ log_done_counter = 0

====
